---------------------------- MODULE Spec2Model ----------------------------
(***************************************************************************)
(* VillageLink ML microservice (src/microservices/ml-service/app.py):      *)
(* the item-to-item collaborative filter ItemToItemCF (fit / recommend),   *)
(* the content based filter ContentBasedFilter (add_item / find_similar)   *)
(* and the two request handlers that drive the shared cf_model instance.   *)
(*                                                                         *)
(* Python dicts whose iteration order the code observes are modelled as    *)
(* association lists (sequences of <<key, value>> in insertion order);     *)
(* dicts that are only looked up by key are modelled as functions.         *)
(***************************************************************************)
EXTENDS Integers, Sequences, FiniteSets, TLC

\* ------------------------------------------------------------------ bounds

\* Most interaction records the model lets the instance ingest in total.
MaxIngest == 4
\* Longest user_history / orderHistory list of a query.
MaxHist == 2
\* Most add_item calls on the content based filter.
MaxAdds == 2
\* Most interaction records ingested in total while requests run concurrently.
MaxConcIngest == 3

\* Default n of recommend and find_similar, and the n the handlers pass.
DefaultN == 5

\* user_id values of interaction records.
Users == {"user1", "user2"}
\* item_id values: 1, 2, 3 stand for "chai" < "dosa" < "samosa", so that
\* integer order is the order Python's sorted() gives the strings.
ItemIds == {1, 2, 3}
\* Values of the parameter n that queries are called with.
NValues == {-1, 0, 1, DefaultN}

\* An interaction record; its rating is never read by fit and is left out.
Interaction == [user_id : Users, item_id : ItemIds]

SeqsUpTo(S, n) == UNION {[1..k -> S] : k \in 0..n}

Histories == SeqsUpTo(ItemIds, MaxHist)

\* ------------------------------------------------- dicts as association lists

RECURSIVE DictIndex(_, _, _)
\* Position of key k in association list d at or after position i, 0 if absent.
DictIndex(d, k, i) ==
  IF i > Len(d) THEN 0
  ELSE IF d[i][1] = k THEN i
  ELSE DictIndex(d, k, i + 1)

DictHas(d, k) == DictIndex(d, k, 1) # 0

\* d.get(k, default)
DictGet(d, k, default) ==
  IF DictHas(d, k) THEN d[DictIndex(d, k, 1)][2] ELSE default

\* d[k] = v : an existing key keeps its position, a new key goes last.
DictSet(d, k, v) ==
  IF DictHas(d, k)
    THEN [d EXCEPT ![DictIndex(d, k, 1)] = <<k, v>>]
    ELSE Append(d, <<k, v>>)

DictKeys(d) == {d[i][1] : i \in 1..Len(d)}

\* x in list
InList(x, list) == \E i \in 1..Len(list) : list[i] = x

\* A dict that is only looked up: a function on the set of its keys.
EmptyMap == [k \in {} |-> 0]

MapGet(m, k, default) == IF k \in DOMAIN m THEN m[k] ELSE default

MapSet(m, k, v) == [x \in (DOMAIN m) \cup {k} |-> IF x = k THEN v ELSE m[x]]

\* ------------------------------------------------------- ItemToItemCF.fit

\* A key that keeps the order the two items came in.
SortedKeyUnsorted(item1, item2) == <<item1, item2>>

\* tuple(sorted([item1, item2]))
SortedKey(item1, item2) ==
  IF item1 <= item2 THEN <<item1, item2>> ELSE <<item2, item1>>

RECURSIVE GroupByUser(_, _, _)
\* The first loop of fit: user_items grows per user in arrival order and
\* every item not yet in self.item_ids is appended to it.
GroupByUser(interactions, user_items, ids) ==
  IF interactions = <<>> THEN [user_items |-> user_items, item_ids |-> ids]
  ELSE LET uid == Head(interactions).user_id
           iid == Head(interactions).item_id
           old == DictGet(user_items, uid, <<>>)
       IN  GroupByUser(Tail(interactions),
                       DictSet(user_items, uid, Append(old, iid)),
                       IF InList(iid, ids) THEN ids ELSE Append(ids, iid))

RECURSIVE CountPairsAdjacent(_, _, _, _)
\* As CountPairs, but item i is paired with item i + 1 only.
CountPairsAdjacent(co, items, i, j) ==
  IF i >= Len(items) THEN co
  ELSE LET key == SortedKey(items[i], items[i + 1])
       IN  CountPairsAdjacent(MapSet(co, key, MapGet(co, key, 0) + 1), items, i + 1, j)

RECURSIVE CountPairs(_, _, _, _)
\* One user's list: every index pair i < j increments the count of the
\* sorted key of (items[i], items[j]).
CountPairs(co, items, i, j) ==
  IF i > Len(items) THEN co
  ELSE IF j > Len(items) THEN CountPairs(co, items, i + 1, i + 2)
  ELSE LET key == SortedKey(items[i], items[j])
       IN  CountPairs(MapSet(co, key, MapGet(co, key, 0) + 1), items, i, j + 1)

RECURSIVE CountAll(_, _, _)
\* The second loop of fit, over user_items.items() from position u on.
CountAll(co, user_items, u) ==
  IF u > Len(user_items) THEN co
  ELSE CountAll(CountPairs(co, user_items[u][2], 1, 2), user_items, u + 1)

RECURSIVE BuildRowSparse(_, _, _, _, _)
\* As BuildRow, but a pair that never co-occurred gets no entry.
BuildRowSparse(row, item, ids, co, k) ==
  IF k > Len(ids) THEN row
  ELSE BuildRowSparse(IF item # ids[k] /\ SortedKey(item, ids[k]) \in DOMAIN co
                        THEN DictSet(row, ids[k], co[SortedKey(item, ids[k])])
                        ELSE row,
                      item, ids, co, k + 1)

RECURSIVE BuildRow(_, _, _, _, _)
\* The inner loop of the third loop of fit: the row of item, filled in the
\* order of self.item_ids from position k on.
BuildRow(row, item, ids, co, k) ==
  IF k > Len(ids) THEN row
  ELSE BuildRow(IF item # ids[k]
                  THEN DictSet(row, ids[k], MapGet(co, SortedKey(item, ids[k]), 0))
                  ELSE row,
                item, ids, co, k + 1)

RECURSIVE BuildRows(_, _, _, _)
\* The third loop of fit: a new row for every item of self.item_ids.
BuildRows(sim, ids, co, k) ==
  IF k > Len(ids) THEN sim
  ELSE BuildRows(MapSet(sim, ids[k], BuildRow(<<>>, ids[k], ids, co, 1)), ids, co, k + 1)

\* ItemToItemCF.__init__
NewCF == [item_ids |-> <<>>, co_occurrence |-> EmptyMap, item_similarity |-> EmptyMap]

\* ItemToItemCF.fit run to completion on the instance state cf.
Fit(cf, interactions) ==
  LET g  == GroupByUser(interactions, <<>>, cf.item_ids)
      co == CountAll(cf.co_occurrence, g.user_items, 1)
  IN  [item_ids |-> g.item_ids,
       co_occurrence |-> co,
       item_similarity |-> BuildRows(cf.item_similarity, g.item_ids, co, 1)]

\* ------------------------------------------------- ItemToItemCF.recommend

\* list[:n] of Python, for any integer n.
Slice(list, n) ==
  LET stop == IF n >= 0 THEN (IF n < Len(list) THEN n ELSE Len(list))
              ELSE (IF Len(list) + n > 0 THEN Len(list) + n ELSE 0)
  IN  SubSeq(list, 1, stop)

\* sorted(..., key=lambda x: x[1], reverse=True) is stable: entries of equal
\* score keep their order.  InsertDesc places x after every entry whose score
\* is >= its own.
RECURSIVE InsertDesc(_, _, _)
InsertDesc(sorted, x, i) ==
  IF i > Len(sorted) THEN Append(sorted, x)
  ELSE IF sorted[i][2] >= x[2] THEN InsertDesc(sorted, x, i + 1)
  ELSE SubSeq(sorted, 1, i - 1) \o <<x>> \o SubSeq(sorted, i, Len(sorted))

RECURSIVE SortDescFrom(_, _, _)
SortDescFrom(sorted, list, i) ==
  IF i > Len(list) THEN sorted
  ELSE SortDescFrom(InsertDesc(sorted, list[i], 1), list, i + 1)

\* A sort that leaves the list as it is.
SortUnsorted(list) == list

SortDesc(list) == SortDescFrom(<<>>, list, 1)

RECURSIVE AccumulateRowNoExclusion(_, _, _, _)
\* As AccumulateRow, without the test against user_history.
AccumulateRowNoExclusion(scores, row, user_history, k) ==
  IF k > Len(row) THEN scores
  ELSE AccumulateRowNoExclusion(
         DictSet(scores, row[k][1], DictGet(scores, row[k][1], 0) + row[k][2]),
         row, user_history, k + 1)

RECURSIVE AccumulateRow(_, _, _, _)
\* The inner loop of recommend over self.item_similarity[hist_item].items().
AccumulateRow(scores, row, user_history, k) ==
  IF k > Len(row) THEN scores
  ELSE AccumulateRow(IF ~InList(row[k][1], user_history)
                       THEN DictSet(scores, row[k][1],
                                    DictGet(scores, row[k][1], 0) + row[k][2])
                       ELSE scores,
                     row, user_history, k + 1)

RECURSIVE Accumulate(_, _, _, _)
\* The outer loop of recommend over user_history from position h on.
Accumulate(scores, sim, user_history, h) ==
  IF h > Len(user_history) THEN scores
  ELSE Accumulate(IF user_history[h] \in DOMAIN sim
                    THEN AccumulateRow(scores, sim[user_history[h]], user_history, 1)
                    ELSE scores,
                  sim, user_history, h + 1)

\* ItemToItemCF.recommend run to completion on the table sim.
Recommend(sim, user_history, n) ==
  Slice(SortDesc(Accumulate(<<>>, sim, user_history, 1)), n)

\* ------------------------------------------------------ ContentBasedFilter

\* item_id values of the content based filter.
RouteIds == {"r1", "r2"}
\* Feature names.
FeatureKeys == {"color", "price"}
\* Feature values, tagged with their Python type: n is the value of a
\* number, s the value of a string.  A bool is an int in Python
\* (True == 1): its n is the integer it equals.
FeatureValues ==
  { [t |-> "int", n |-> 1, s |-> ""], [t |-> "int", n |-> 3, s |-> ""],
    [t |-> "bool", n |-> 1, s |-> ""],
    [t |-> "str", n |-> 0, s |-> "red"], [t |-> "str", n |-> 0, s |-> "blue"] }
\* A features dict: some of the keys, each with a value.
FeatureDicts == UNION {[K -> FeatureValues] : K \in SUBSET FeatureKeys}

\* isinstance(value, (int, float)): true of a bool as well.
IsNumber(value) == value.t \in {"int", "bool"}

\* item[key] == value of Python: numbers (bools among them) compare by
\* value, a string equals only an equal string.
PyEq(a, b) ==
  IF IsNumber(a) /\ IsNumber(b) THEN a.n = b.n
  ELSE a.t = b.t /\ a.s = b.s

Abs(x) == IF x < 0 THEN -x ELSE x

\* Scores of find_similar are sums of 1 and of 1 / (1 + d), d a distance of
\* two numeric feature values.  They are kept exact, as integers in units
\* of 1 / ScoreScale, ScoreScale the least common multiple of every 1 + d.
Denominators ==
  {1 + Abs(a.n - b.n) : a \in {x \in FeatureValues : IsNumber(x)},
                        b \in {x \in FeatureValues : IsNumber(x)}}

RECURSIVE Lcm(_, _)
Lcm(S, n) == IF \A d \in S : n % d = 0 THEN n ELSE Lcm(S, n + 1)

ScoreScale == Lcm(Denominators, 1)

RECURSIVE CalculateSimilarity(_, _, _)
\* _calculate_similarity: the sum, over the keys of query still in todo,
\* of what each key adds to score.
CalculateSimilarity(query, item, todo) ==
  IF todo = {} THEN 0
  ELSE LET key == CHOOSE k \in todo : TRUE
           add == IF key \in DOMAIN item
                    THEN IF PyEq(item[key], query[key]) THEN ScoreScale
                         ELSE IF IsNumber(query[key]) /\ IsNumber(item[key])
                           THEN ScoreScale \div (1 + Abs(query[key].n - item[key].n))
                           ELSE 0
                    ELSE 0
       IN  add + CalculateSimilarity(query, item, todo \ {key})

RECURSIVE ScoreItems(_, _, _)
\* The loop of find_similar over self.items.items() from position k on.
ScoreItems(store, query_features, k) ==
  IF k > Len(store) THEN <<>>
  ELSE <<  <<store[k][1],
             CalculateSimilarity(query_features, store[k][2], DOMAIN query_features)>> >>
       \o ScoreItems(store, query_features, k + 1)

\* ContentBasedFilter.find_similar
FindSimilar(store, query_features, n) ==
  Slice(SortDesc(ScoreItems(store, query_features, 1)), n)

\* -------------------------------------------------------------------- state

VARIABLES
  item_ids,         \* cf_model.item_ids: list of item ids, first seen first
  co_occurrence,    \* cf_model.co_occurrence: sorted pair -> count
  item_similarity,  \* cf_model.item_similarity: item -> row (other -> count)
  items,            \* cb_filter.items: item id -> features, insertion order
  response,         \* the call that has just returned, with its result
  ingested,         \* interaction records passed to fit so far
  adds,             \* add_item calls so far
  \* a train request whose fit runs step by step
  fit_pc,           \* "idle", "group", "count" or "rows"
  fit_interactions, \* the argument of the running fit
  fit_user_items,   \* its local user_items
  fit_k,            \* third loop: position of item in item_ids
  fit_j,            \* third loop: position of other_item, 0 before the row is reset
  fit_before,       \* the instance state when the running fit began
  \* a recommend request whose recommend runs step by step
  rd_pc,            \* "idle", "scan" or "done"
  rd_history,       \* its orderHistory
  rd_h,             \* position of hist_item in user_history
  rd_scores,        \* its local scores
  rd_response,      \* its response
  rd_fits,          \* fits that ran while this recommend ran: 0, 1, or 2 for more
  rd_before,        \* the instance state before the first of them
  rd_arg            \* the argument of the first of them

fitVars == <<fit_pc, fit_interactions, fit_user_items, fit_k, fit_j, fit_before>>
rdVars == <<rd_pc, rd_history, rd_h, rd_scores, rd_response, rd_fits, rd_before, rd_arg>>

vars == <<item_ids, co_occurrence, item_similarity, items, response, ingested, adds,
          fitVars, rdVars>>

cfVars == <<item_ids, co_occurrence, item_similarity, ingested>>
cbVars == <<items, adds>>

Idle == [op |-> "none"]

\* The instance state as the record Fit takes and gives.
CF == [item_ids |-> item_ids, co_occurrence |-> co_occurrence,
       item_similarity |-> item_similarity]

\* cf_model = ItemToItemCF() and cb_filter = ContentBasedFilter().
Init ==
  /\ item_ids = NewCF.item_ids
  /\ co_occurrence = NewCF.co_occurrence
  /\ item_similarity = NewCF.item_similarity
  /\ items = <<>>
  /\ response = Idle
  /\ ingested = 0
  /\ adds = 0
  /\ fit_pc = "idle"
  /\ fit_interactions = <<>>
  /\ fit_user_items = <<>>
  /\ fit_k = 0
  /\ fit_j = 0
  /\ fit_before = NewCF
  /\ rd_pc = "idle"
  /\ rd_history = <<>>
  /\ rd_h = 0
  /\ rd_scores = <<>>
  /\ rd_response = Idle
  /\ rd_fits = 0
  /\ rd_before = NewCF
  /\ rd_arg = <<>>

\* The interaction lists a fit may still be given.
Inputs == SeqsUpTo(Interaction, MaxIngest - ingested)

SetCF(new, interactions) ==
  /\ item_ids' = new.item_ids
  /\ co_occurrence' = new.co_occurrence
  /\ item_similarity' = new.item_similarity
  /\ ingested' = ingested + Len(interactions)

\* cf_model.fit(interactions)
FitCall ==
  /\ response = Idle
  /\ \E interactions \in Inputs :
       /\ SetCF(Fit(CF, interactions), interactions)
       /\ response' = [op |-> "fit", interactions |-> interactions]
  /\ UNCHANGED cbVars

\* POST /recommend/train: fit is called only if interactions is not empty.
TrainRecommendations ==
  /\ response = Idle
  /\ \E interactions \in Inputs :
       /\ IF interactions # <<>>
            THEN SetCF(Fit(CF, interactions), interactions)
            ELSE UNCHANGED cfVars
       /\ response' = [op |-> "train", interactions |-> interactions,
                       success |-> TRUE, trained_on |-> Len(interactions)]
  /\ UNCHANGED cbVars

\* cf_model.recommend(user_history, n)
RecommendCall ==
  /\ response = Idle
  /\ \E user_history \in Histories, n \in NValues :
       response' = [op |-> "recommend", user_history |-> user_history, n |-> n,
                    result |-> Recommend(item_similarity, user_history, n)]
  /\ UNCHANGED <<cfVars, cbVars>>

\* cb_filter.add_item(item_id, features)
AddItem ==
  /\ response = Idle
  /\ adds < MaxAdds
  /\ \E item_id \in RouteIds, features \in FeatureDicts :
       /\ items' = DictSet(items, item_id, features)
       /\ response' = [op |-> "add_item", item_id |-> item_id, features |-> features]
  /\ adds' = adds + 1
  /\ UNCHANGED cfVars

\* cb_filter.find_similar(query_features, n)
FindSimilarCall ==
  /\ response = Idle
  /\ \E query_features \in FeatureDicts, n \in NValues :
       response' = [op |-> "find_similar", query_features |-> query_features, n |-> n,
                    result |-> FindSimilar(items, query_features, n)]
  /\ UNCHANGED <<cfVars, cbVars>>

\* The caller takes the result; the next call can be made.
Return ==
  /\ response # Idle
  /\ response' = Idle
  /\ UNCHANGED <<cfVars, cbVars>>

\* The two instances share no state: a run that calls both is a run of each
\* side by side, so the instances are explored one at a time.
CFUntouched == ingested = 0
CBUntouched == adds = 0

Next ==
  \/ CBUntouched /\ FitCall /\ UNCHANGED <<fitVars, rdVars>>
  \/ CBUntouched /\ TrainRecommendations /\ UNCHANGED <<fitVars, rdVars>>
  \/ CBUntouched /\ RecommendCall /\ UNCHANGED <<fitVars, rdVars>>
  \/ CFUntouched /\ AddItem /\ UNCHANGED <<fitVars, rdVars>>
  \/ CFUntouched /\ FindSimilarCall /\ UNCHANGED <<fitVars, rdVars>>
  \/ Return /\ UNCHANGED <<fitVars, rdVars>>

\* Calls made one after the other, each run to completion.
Spec == Init /\ [][Next]_vars

\* ------------------------------------------- requests served concurrently
\* app.run serves each request on a thread of its own, and cf_model is
\* shared with no lock: the steps of a train request's fit interleave with
\* the steps of a recommend request's recommend.  A step here is a whole
\* loop of fit, one dict store of its third loop, or one hist_item of
\* recommend; the interpreter can switch threads at finer grain still.

seqVars == <<items, response, adds>>

\* POST /recommend/train with a non-empty interactions: fit is entered.
TrainBegin ==
  /\ fit_pc = "idle"
  /\ \E interactions \in SeqsUpTo(Interaction, MaxConcIngest - ingested) \ {<<>>} :
       /\ fit_interactions' = interactions
       /\ ingested' = ingested + Len(interactions)
       /\ IF rd_pc = "scan" /\ rd_fits = 0
            THEN rd_before' = CF /\ rd_arg' = interactions
            ELSE UNCHANGED <<rd_before, rd_arg>>
  /\ fit_pc' = "group"
  /\ fit_before' = CF
  /\ rd_fits' = IF rd_pc = "scan" THEN (IF rd_fits = 0 THEN 1 ELSE 2) ELSE rd_fits
  /\ UNCHANGED <<item_ids, co_occurrence, item_similarity, fit_user_items, fit_k, fit_j,
                 rd_pc, rd_history, rd_h, rd_scores, rd_response, seqVars>>

\* The first loop of fit.
FitGroup ==
  /\ fit_pc = "group"
  /\ LET g == GroupByUser(fit_interactions, <<>>, item_ids)
     IN  item_ids' = g.item_ids /\ fit_user_items' = g.user_items
  /\ fit_pc' = "count"
  /\ UNCHANGED <<co_occurrence, item_similarity, ingested, fit_interactions, fit_k, fit_j,
                 fit_before, rdVars, seqVars>>

\* The second loop of fit.
FitCount ==
  /\ fit_pc = "count"
  /\ co_occurrence' = CountAll(co_occurrence, fit_user_items, 1)
  /\ fit_pc' = "rows"
  /\ fit_k' = 1
  /\ fit_j' = 0
  /\ UNCHANGED <<item_ids, item_similarity, ingested, fit_interactions, fit_user_items,
                 fit_before, rdVars, seqVars>>

\* self.item_similarity[item] = {}
FitRowReset ==
  /\ fit_pc = "rows"
  /\ fit_k <= Len(item_ids)
  /\ fit_j = 0
  /\ item_similarity' = MapSet(item_similarity, item_ids[fit_k], <<>>)
  /\ fit_j' = 1
  /\ UNCHANGED <<item_ids, co_occurrence, ingested, fit_pc, fit_interactions,
                 fit_user_items, fit_k, fit_before, rdVars, seqVars>>

\* One pass of the inner loop: self.item_similarity[item][other_item] = ...
FitRowEntry ==
  /\ fit_pc = "rows"
  /\ fit_k <= Len(item_ids)
  /\ fit_j \in 1..Len(item_ids)
  /\ LET item == item_ids[fit_k]
         other_item == item_ids[fit_j]
     IN  item_similarity' =
           IF item # other_item
             THEN MapSet(item_similarity, item,
                         DictSet(item_similarity[item], other_item,
                                 MapGet(co_occurrence, SortedKey(item, other_item), 0)))
             ELSE item_similarity
  /\ fit_j' = fit_j + 1
  /\ UNCHANGED <<item_ids, co_occurrence, ingested, fit_pc, fit_interactions,
                 fit_user_items, fit_k, fit_before, rdVars, seqVars>>

\* The inner loop is over: on to the next item.
FitRowNext ==
  /\ fit_pc = "rows"
  /\ fit_k <= Len(item_ids)
  /\ fit_j > Len(item_ids)
  /\ fit_k' = fit_k + 1
  /\ fit_j' = 0
  /\ UNCHANGED <<item_ids, co_occurrence, item_similarity, ingested, fit_pc,
                 fit_interactions, fit_user_items, fit_before, rdVars, seqVars>>

\* fit returns and the train request is answered.
FitEnd ==
  /\ fit_pc = "rows"
  /\ fit_k > Len(item_ids)
  /\ fit_pc' = "idle"
  /\ fit_interactions' = <<>>
  /\ fit_user_items' = <<>>
  /\ fit_k' = 0
  /\ fit_j' = 0
  /\ fit_before' = NewCF
  /\ UNCHANGED <<item_ids, co_occurrence, item_similarity, ingested, rdVars, seqVars>>

\* The popular items recommend_food answers with when orderHistory is
\* empty: samosa, chai, dosa.
Popular == << <<3, 10>>, <<1, 9>>, <<2, 8>> >>

\* POST /recommend/food: an empty orderHistory is answered at once,
\* otherwise recommend(order_history, n=5) is entered.
RecommendBegin ==
  /\ rd_pc = "idle"
  /\ \E order_history \in Histories :
       /\ rd_history' = order_history
       /\ IF order_history = <<>>
            THEN /\ rd_pc' = "done"
                 /\ rd_response' = [recommendations |-> Popular, source |-> "popular"]
            ELSE /\ rd_pc' = "scan"
                 /\ rd_response' = Idle
  /\ rd_h' = 1
  /\ rd_scores' = <<>>
  /\ rd_fits' = IF rd_pc' = "scan" /\ fit_pc # "idle" THEN 1 ELSE 0
  /\ rd_before' = fit_before
  /\ rd_arg' = fit_interactions
  /\ UNCHANGED <<item_ids, co_occurrence, item_similarity, ingested, fitVars, seqVars>>

\* One pass of the outer loop of recommend.
RecommendScan ==
  /\ rd_pc = "scan"
  /\ rd_h <= Len(rd_history)
  /\ rd_scores' = IF rd_history[rd_h] \in DOMAIN item_similarity
                    THEN AccumulateRow(rd_scores, item_similarity[rd_history[rd_h]],
                                       rd_history, 1)
                    ELSE rd_scores
  /\ rd_h' = rd_h + 1
  /\ UNCHANGED <<item_ids, co_occurrence, item_similarity, ingested, fitVars, seqVars,
                 rd_pc, rd_history, rd_response, rd_fits, rd_before, rd_arg>>

\* The loop is over: sort, cut to n = 5, answer.
RecommendEnd ==
  /\ rd_pc = "scan"
  /\ rd_h > Len(rd_history)
  /\ rd_response' = [recommendations |-> Slice(SortDesc(rd_scores), DefaultN),
                     source |-> "collaborative_filtering"]
  /\ rd_pc' = "done"
  /\ UNCHANGED <<item_ids, co_occurrence, item_similarity, ingested, fitVars, seqVars,
                 rd_history, rd_h, rd_scores, rd_fits, rd_before, rd_arg>>

\* The response is sent; the next recommend request can come.
RecommendReturn ==
  /\ rd_pc = "done"
  /\ rd_pc' = "idle"
  /\ rd_history' = <<>>
  /\ rd_h' = 0
  /\ rd_scores' = <<>>
  /\ rd_response' = Idle
  /\ rd_fits' = 0
  /\ rd_before' = NewCF
  /\ rd_arg' = <<>>
  /\ UNCHANGED <<item_ids, co_occurrence, item_similarity, ingested, fitVars, seqVars>>

NextConc ==
  \/ TrainBegin
  \/ FitGroup
  \/ FitCount
  \/ FitRowReset
  \/ FitRowEntry
  \/ FitRowNext
  \/ FitEnd
  \/ RecommendBegin
  \/ RecommendScan
  \/ RecommendEnd
  \/ RecommendReturn

\* A train request and a recommend request served on two threads.
SpecConc == Init /\ [][NextConc]_vars

\* The steps of fit, taken together, do what Fit does.
FitStepsAgree == [][FitEnd => CF = Fit(fit_before, fit_interactions)]_vars


\* ------------------------------------------------------------- properties

IsFit == response.op = "fit"
IsRecommend == response.op = "recommend"
IsFindSimilar == response.op = "find_similar"

\* A row as the mapping it is, its insertion order forgotten.
RowAsMap(row) == [k \in DictKeys(row) |-> DictGet(row, k, 0)]

\* Equality of two instance states as Python compares them: lists in
\* order, dicts by keys and values.
SameTables(a, b) ==
  /\ a.item_ids = b.item_ids
  /\ a.co_occurrence = b.co_occurrence
  /\ DOMAIN a.item_similarity = DOMAIN b.item_similarity
  /\ \A x \in DOMAIN a.item_similarity :
       RowAsMap(a.item_similarity[x]) = RowAsMap(b.item_similarity[x])

\* The registered items, as a set.
Registered == {item_ids[i] : i \in 1..Len(item_ids)}

\* No fit before the one that has just returned was given any record: it
\* ran on the tables as __init__ made them.
FirstFit == IsFit /\ ingested = Len(response.interactions)

\* C1: retrain replaces, not merges.  After fit(S1) and then fit(S2) the
\* tables are those of a new instance on which only fit(S2) was called.
C1_RetrainReplaces ==
  IsFit => SameTables(CF, Fit(NewCF, response.interactions))

\* C3: self-exclusion.  In every state reached by fit calls, for every
\* history and every n, recommend(history, n) returns no item of history.
C3_SelfExclusion ==
  IsRecommend =>
    \A i \in 1..Len(response.result) :
      ~InList(response.result[i][1], response.user_history)

\* recommend has answered a history of two different registered items with
\* an item: each of the two is in the row of the other.
C3_Witness ==
  /\ IsRecommend
  /\ response.result # <<>>
  /\ Len(response.user_history) = 2
  /\ response.user_history[1] # response.user_history[2]
  /\ \A i \in 1..2 : response.user_history[i] \in DOMAIN item_similarity

\* C4: monotonic score ordering.  Every sequence recommend or find_similar
\* returns, in any reachable state and for any n, is non-increasing by score.
C4_SortedDescending ==
  (IsRecommend \/ IsFindSimilar) =>
    \A i \in 1..(Len(response.result) - 1) :
      response.result[i][2] >= response.result[i + 1][2]

\* recommend has returned two items of different score that it met in the
\* other order, the lower score first.
C4_Witness ==
  /\ IsRecommend
  /\ Len(response.result) = 2
  /\ response.result[1][2] > response.result[2][2]
  /\ Accumulate(<<>>, item_similarity, response.user_history, 1)
       = << response.result[2], response.result[1] >>

\* find_similar has returned two items of different score that are stored
\* in the other order.
C4_WitnessFindSimilar ==
  /\ IsFindSimilar
  /\ Len(response.result) = 2
  /\ response.result[1][2] > response.result[2][2]
  /\ items[1][1] = response.result[2][1]

\* C5: symmetry.  In every state reached by fit calls, any two different
\* registered items A and B have item_similarity[A][B] = item_similarity[B][A],
\* and co_occurrence never holds both orderings of a pair as keys.
C5_Symmetry ==
  /\ \A A \in Registered, B \in Registered :
       A # B =>
         /\ A \in DOMAIN item_similarity /\ DictHas(item_similarity[A], B)
         /\ B \in DOMAIN item_similarity /\ DictHas(item_similarity[B], A)
         /\ DictGet(item_similarity[A], B, 0) = DictGet(item_similarity[B], A, 0)
  /\ \A A \in ItemIds, B \in ItemIds :
       A # B => ~(<<A, B>> \in DOMAIN co_occurrence /\ <<B, A>> \in DOMAIN co_occurrence)

\* fit has counted a pair that one user gave larger item first and another
\* user smaller item first.
C5_Witness ==
  /\ IsFit
  /\ \E i, j, k, l \in 1..Len(response.interactions) :
       LET x == response.interactions
       IN  /\ i < j /\ x[i].user_id = x[j].user_id /\ x[i].item_id > x[j].item_id
           /\ k < l /\ x[k].user_id = x[l].user_id /\ x[k].user_id # x[i].user_id
           /\ x[k].item_id = x[j].item_id /\ x[l].item_id = x[i].item_id
           /\ MapGet(co_occurrence, <<x[j].item_id, x[i].item_id>>, 0) = 2
           /\ DictGet(item_similarity[x[i].item_id], x[j].item_id, 0) = 2

\* The users whose records in interactions name both A and B.
UsersWithBoth(interactions, A, B) ==
  {u \in Users :
     /\ \E i \in 1..Len(interactions) : interactions[i] = [user_id |-> u, item_id |-> A]
     /\ \E i \in 1..Len(interactions) : interactions[i] = [user_id |-> u, item_id |-> B]}

\* No user has the same item in two records.
NoRepeats(interactions) ==
  \A i, j \in 1..Len(interactions) : i # j => interactions[i] # interactions[j]

\* C6 as claimed: after fit on a new instance the count of every pair {A, B}
\* is the number of distinct users whose history has both A and B, for every
\* interaction sequence, a user's repeated items included.
C6_DistinctUserCount ==
  FirstFit =>
    \A A \in ItemIds, B \in ItemIds :
      A < B => MapGet(co_occurrence, <<A, B>>, 0)
                 = Cardinality(UsersWithBoth(response.interactions, A, B))

\* C6 as amended: after fit on a new instance the count of every pair {A, B}
\* is the number of distinct users whose history has both A and B, for every
\* interaction sequence in which no user has the same item more than once.
C6_DistinctUserCountNoRepeats ==
  (FirstFit /\ NoRepeats(response.interactions)) =>
    \A A \in ItemIds, B \in ItemIds :
      A < B => MapGet(co_occurrence, <<A, B>>, 0)
                 = Cardinality(UsersWithBoth(response.interactions, A, B))

\* The first fit, with no repeated item, has counted a pair for two users.
C6_Witness ==
  /\ FirstFit
  /\ NoRepeats(response.interactions)
  /\ \E A \in ItemIds, B \in ItemIds :
       /\ A < B
       /\ Cardinality(UsersWithBoth(response.interactions, A, B)) = 2
       /\ MapGet(co_occurrence, <<A, B>>, 0) = 2

\* C7: fit with an empty sequence clears all state.  After fit([]) in any
\* reachable state, and after a train request with an empty interactions,
\* item_ids, co_occurrence and item_similarity are empty and every
\* recommend returns an empty sequence.
C7_EmptyFitClears ==
  (response.op \in {"fit", "train"} /\ response.interactions = <<>>) =>
    /\ item_ids = <<>>
    /\ co_occurrence = EmptyMap
    /\ item_similarity = EmptyMap
    /\ \A h \in Histories, n \in NValues : Recommend(item_similarity, h, n) = <<>>

\* C8: for every n <= 0, in any reachable state, recommend(history, n) and
\* find_similar(query, n) return an empty sequence.
C8_NonPositiveNEmpty ==
  ((IsRecommend \/ IsFindSimilar) /\ response.n <= 0) => response.result = <<>>

RECURSIVE ClaimedSimilarity(_, _, _)
\* The score C9 states, in units of 1 / ScoreScale: equal values add 1
\* whatever their types, and of unequal values only two numbers that are
\* not bools add 1 / (1 + |q - c|).
ClaimedSimilarity(query, item, todo) ==
  IF todo = {} THEN 0
  ELSE LET key == CHOOSE k \in todo : TRUE
           add == IF key \notin DOMAIN item THEN 0
                  ELSE IF PyEq(item[key], query[key]) THEN ScoreScale
                  ELSE IF query[key].t = "int" /\ item[key].t = "int"
                    THEN ScoreScale \div (1 + Abs(query[key].n - item[key].n))
                    ELSE 0
       IN  add + ClaimedSimilarity(query, item, todo \ {key})

\* C9: find_similar scores a stored item as the sum over the query's keys
\* of 0 for a key the item lacks, 1 for exactly equal values, 1/(1+|q-c|)
\* for unequal values that are both numbers and 0 for unequal values that
\* are not both numbers, strings and booleans being opaque non-numbers.
C9_ScoringRule ==
  IsFindSimilar =>
    \A i \in 1..Len(response.result) :
      response.result[i][2]
        = ClaimedSimilarity(response.query_features,
                            DictGet(items, response.result[i][1], EmptyMap),
                            DOMAIN response.query_features)

\* C10: row completeness.  After every fit, in any sequence of fits,
\* item_ids has no duplicate, item_similarity has exactly one row per
\* registered item, and the row of X has as keys exactly the registered
\* items other than X, each with the co_occurrence count of the sorted pair,
\* 0 when the pair has no entry.
C10_RowCompleteness ==
  /\ \A i, j \in 1..Len(item_ids) : i # j => item_ids[i] # item_ids[j]
  /\ DOMAIN item_similarity = Registered
  /\ \A X \in Registered :
       /\ DictKeys(item_similarity[X]) = Registered \ {X}
       /\ Len(item_similarity[X]) = Cardinality(Registered \ {X})
       /\ \A Y \in Registered \ {X} :
            DictGet(item_similarity[X], Y, -1)
              = MapGet(co_occurrence, IF X < Y THEN <<X, Y>> ELSE <<Y, X>>, 0)

\* A fit after an earlier fit has left three registered items, one pair
\* of them with an explicit 0 and one pair with a count.
C10_Witness ==
  /\ IsFit
  /\ response.interactions # <<>>
  /\ ingested > Len(response.interactions)
  /\ Len(item_ids) = 3
  /\ \E X \in Registered, Y \in Registered :
       X # Y /\ DictGet(item_similarity[X], Y, -1) = 0
  /\ \E X \in Registered, Y \in Registered :
       X # Y /\ DictGet(item_similarity[X], Y, -1) > 0

\* C2: while a fit runs concurrently with recommend on the shared instance,
\* no recommend sees a partly rebuilt table: its result is the result on the
\* table as it was before that fit or on the table as it is after it.
C2_NoPartialTable ==
  (rd_pc = "done" /\ rd_response.source = "collaborative_filtering" /\ rd_fits = 1) =>
    \/ rd_response.recommendations
         = Recommend(rd_before.item_similarity, rd_history, DefaultN)
    \/ rd_response.recommendations
         = Recommend(Fit(rd_before, rd_arg).item_similarity, rd_history, DefaultN)

=============================================================================
